---- MODULE Spec2Model ----
(***************************************************************************)
(* Model of mouse-follows-focus.py: the polling loop of main() and the     *)
(* helpers it calls, run against a user32 whose answers change between     *)
(* any two steps of the loop.                                              *)
(***************************************************************************)
EXTENDS Integers, Sequences, FiniteSets, TLC

\* ------------------------------------------------------------------ bounds
\* Window handles are 1..MaxHandle; 0 is the null handle.
MaxHandle == 2
\* Cursor coordinates range over 0..MaxCoord.
MaxCoord == 3
\* The geometry helpers on their own take coordinates in -GeomCoord..GeomCoord.
GeomCoord == 2

Handles == 1..MaxHandle
NULL == 0

\* Python's None, and the failure of a query.  Rectangles and points are
\* tuples, so None is the empty tuple: like None it is falsy, and unlike a
\* string it can be compared with a tuple.
None == <<>>

\* Rectangles GetWindowRect may report: two proper ones with different
\* centers, and one of zero width.
Rects == { <<0, 0, 2, 2>>, <<1, 1, 4, 4>>, <<3, 2, 3, 4>> }

\* Positions the user may leave the cursor at.
Points == { <<i, i>> : i \in 0..MaxCoord } \cup { <<0, MaxCoord>> }

VARIABLES
    \* ---- user32, as the loop sees it
    fg,                 \* what GetForegroundWindow returns now
    win,                \* what the window queries return now for the handle asked about
    cursor,             \* the cursor position, None when GetCursorPos fails now
    has_getwindowlong,  \* _has_getwindowlong, fixed at import
    \* ---- main()
    pc, last_hwnd, hwnd, rect, cur, rect2, cx, cy,
    \* ---- history
    log,                \* the calls of the current tick, in order
    lastNonNull,        \* the most recent non-null handle a poll returned
    gap,                \* the latest poll returned null, after a non-null one
    regained,           \* the latest poll returned lastNonNull again after a gap
    lastOutcome,        \* how the latest transition ended, "none" while one runs
    polled              \* the handles a poll has returned so far

osvars == <<fg, win, cursor, has_getwindowlong>>
locals == <<rect, cur, rect2, cx, cy>>
hist == <<lastNonNull, gap, regained, lastOutcome, polled>>
vars == <<fg, win, cursor, has_getwindowlong,
          pc, last_hwnd, hwnd, rect, cur, rect2, cx, cy,
          log, lastNonNull, gap, regained, lastOutcome, polled>>

WinStates == [visible : BOOLEAN, iconic : BOOLEAN, toolwindow : BOOLEAN,
              rect : Rects \cup {None}]

\* ----------------------------------------------------------------- helpers
\* Python's truth of an optional tuple.
Truthy(v) == v # None

\* Mutant: the tool-window test made although the style cannot be queried.
hwnd_is_candidate_always_styled(h) ==
    IF h = NULL THEN FALSE
    ELSE IF ~win.visible THEN FALSE
    ELSE IF win.iconic THEN FALSE
    ELSE IF win.toolwindow THEN FALSE
    ELSE IF win.rect = None THEN FALSE
    ELSE LET width == win.rect[3] - win.rect[1]
             height == win.rect[4] - win.rect[2]
         IN  IF width <= 0 \/ height <= 0 THEN FALSE ELSE TRUE

\* lines 94-113
hwnd_is_candidate(h) ==
    IF h = NULL THEN FALSE
    ELSE IF ~win.visible THEN FALSE
    ELSE IF win.iconic THEN FALSE
    ELSE IF has_getwindowlong /\ win.toolwindow THEN FALSE
    ELSE IF win.rect = None THEN FALSE
    ELSE LET width == win.rect[3] - win.rect[1]
             height == win.rect[4] - win.rect[2]
         IN  IF width <= 0 \/ height <= 0 THEN FALSE ELSE TRUE

\* lines 115-119
get_window_rect(h) == win.rect

\* lines 121-125
get_cursor_pos == cursor

\* Mutant: the right and bottom edges excluded.
point_in_rect_half_open(x, y, r) ==
    (r[1] <= x /\ x < r[3]) /\ (r[2] <= y /\ y < r[4])

\* Mutant: the bottom edge mistyped as the right one.
point_in_rect_bottom_typo(x, y, r) ==
    (r[1] <= x /\ x <= r[3]) /\ (r[2] <= y /\ y <= r[3])

\* lines 127-129
point_in_rect(x, y, r) ==
    (r[1] <= x /\ x <= r[3]) /\ (r[2] <= y /\ y <= r[4])

\* Mutant: the half extent rounded up.
rect_center_rounds_up(r) ==
    <<r[1] + ((r[3] - r[1] + 1) \div 2), r[2] + ((r[4] - r[2] + 1) \div 2)>>

\* Mutant: the midpoint taken of the sum of the edges, then offset again.
rect_center_sum(r) ==
    <<r[1] + ((r[3] + r[1]) \div 2), r[2] + ((r[4] + r[2]) \div 2)>>

\* lines 131-135; \div is floor division, as Python's // is
rect_center(r) ==
    <<r[1] + ((r[3] - r[1]) \div 2), r[2] + ((r[4] - r[2]) \div 2)>>

\* ------------------------------------------------------------- the tick log
Has(op) == \E i \in DOMAIN log : log[i].op = op
Count(op) == Cardinality({ i \in DOMAIN log : log[i].op = op })
Val(op) == log[CHOOSE i \in DOMAIN log : log[i].op = op].val

\* How the tick of the log ended, once a transition fired in it.
Outcome ==
    IF Has("set") THEN "moved"
    ELSE IF Has("filter") /\ ~Val("filter") THEN "rejected"
    ELSE IF (Has("rect") /\ Val("rect") = None) \/ (Has("cur") /\ Val("cur") = None)
         THEN "abandoned"
    ELSE "inside"

Ev(op, val) == [op |-> op, h |-> hwnd, val |-> val]

\* -------------------------------------------------------------------- Init
Init ==
    /\ fg \in Handles \cup {NULL}
    /\ win \in WinStates
    /\ cursor \in Points \cup {None}
    /\ has_getwindowlong \in BOOLEAN
    /\ pc = "poll"
    /\ last_hwnd = NULL
    /\ hwnd = NULL
    /\ rect = None /\ cur = None /\ rect2 = None /\ cx = 0 /\ cy = 0
    /\ log = <<>>
    /\ lastNonNull = NULL /\ gap = FALSE /\ regained = FALSE
    /\ lastOutcome = "none" /\ polled = {}

\* ------------------------------------------------------------ main's steps
\* What the history variables record of a poll.
PollHistory ==
    /\ lastNonNull' = IF fg # NULL THEN fg ELSE lastNonNull
    /\ gap' = (fg = NULL /\ lastNonNull # NULL)
    /\ regained' = (fg # NULL /\ gap /\ fg = lastNonNull)
    /\ lastOutcome' = IF fg \notin {NULL, lastNonNull} THEN "none" ELSE lastOutcome
    /\ polled' = polled \cup ({fg} \ {NULL})

\* Mutant: every change of the polled handle is stored, a null one too.
Poll_stores_null ==
    /\ pc = "poll"
    /\ hwnd' = fg
    /\ log' = << [op |-> "poll", h |-> fg, val |-> fg] >>
    /\ last_hwnd' = fg
    /\ pc' = IF fg # NULL /\ fg # last_hwnd THEN "filter" ELSE "sleep"
    /\ UNCHANGED <<osvars, locals>>

\* Mutant: the new handle is not stored.
Poll_forgets_handle ==
    /\ pc = "poll"
    /\ hwnd' = fg
    /\ log' = << [op |-> "poll", h |-> fg, val |-> fg] >>
    /\ last_hwnd' = last_hwnd
    /\ pc' = IF fg # NULL /\ fg # last_hwnd THEN "filter" ELSE "sleep"
    /\ UNCHANGED <<osvars, locals>>

\* Mutant: every non-null poll fires, the stored handle is not compared.
Poll_no_debounce ==
    /\ pc = "poll"
    /\ hwnd' = fg
    /\ log' = << [op |-> "poll", h |-> fg, val |-> fg] >>
    /\ IF fg # NULL
       THEN last_hwnd' = fg /\ pc' = "filter"
       ELSE last_hwnd' = last_hwnd /\ pc' = "sleep"
    /\ UNCHANGED <<osvars, locals>>

\* lines 149-152: poll, compare with last_hwnd, remember the new handle
PollStep ==
    /\ pc = "poll"
    /\ hwnd' = fg
    /\ log' = << [op |-> "poll", h |-> fg, val |-> fg] >>
    /\ IF fg # NULL /\ fg # last_hwnd
       THEN last_hwnd' = fg /\ pc' = "filter"
       ELSE last_hwnd' = last_hwnd /\ pc' = "sleep"
    /\ UNCHANGED <<osvars, locals>>

Poll == PollStep /\ PollHistory

\* Mutant: the settle delay left out.
Filter_skips_settle ==
    /\ pc = "filter"
    /\ log' = Append(log, Ev("filter", hwnd_is_candidate(hwnd)))
    /\ pc' = IF hwnd_is_candidate(hwnd) THEN "getrect" ELSE "sleep"
    /\ UNCHANGED <<osvars, last_hwnd, hwnd, locals, hist>>

\* Mutant: a rejected handle is forgotten, to be tried again.
Filter_unstores ==
    /\ pc = "filter"
    /\ log' = Append(log, Ev("filter", hwnd_is_candidate(hwnd)))
    /\ pc' = IF hwnd_is_candidate(hwnd) THEN "settle" ELSE "sleep"
    /\ last_hwnd' = IF hwnd_is_candidate(hwnd) THEN last_hwnd ELSE NULL
    /\ UNCHANGED <<osvars, hwnd, locals, hist>>

\* line 154
Filter ==
    /\ pc = "filter"
    /\ log' = Append(log, Ev("filter", hwnd_is_candidate(hwnd)))
    /\ pc' = IF hwnd_is_candidate(hwnd) THEN "settle" ELSE "sleep"
    /\ UNCHANGED <<osvars, last_hwnd, hwnd, locals, hist>>

\* Mutant: the foreground handle is read again after the delay.
Settle_repolls ==
    /\ pc = "settle"
    /\ hwnd' = fg
    /\ log' = Append(log, [op |-> "settle", h |-> fg, val |-> TRUE])
    /\ pc' = "getrect"
    /\ UNCHANGED <<osvars, last_hwnd, locals, hist>>

\* line 155: time.sleep(settle_delay)
Settle ==
    /\ pc = "settle"
    /\ log' = Append(log, Ev("settle", TRUE))
    /\ pc' = "getrect"
    /\ UNCHANGED <<osvars, last_hwnd, hwnd, locals, hist>>

\* line 157
GetRect ==
    /\ pc = "getrect"
    /\ rect' = get_window_rect(hwnd)
    /\ log' = Append(log, Ev("rect", get_window_rect(hwnd)))
    /\ pc' = "getcur"
    /\ UNCHANGED <<osvars, last_hwnd, hwnd, cur, rect2, cx, cy, hist>>

\* Mutant: the containment test inverted.
GetCur_inverted ==
    /\ pc = "getcur"
    /\ cur' = get_cursor_pos
    /\ log' = Append(log, Ev("cur", get_cursor_pos))
    /\ IF Truthy(rect) /\ Truthy(get_cursor_pos)
          /\ point_in_rect(get_cursor_pos[1], get_cursor_pos[2], rect)
       THEN /\ cx' = rect_center(rect)[1]
            /\ cy' = rect_center(rect)[2]
            /\ pc' = "requery"
       ELSE /\ UNCHANGED <<cx, cy>>
            /\ pc' = "sleep"
    /\ UNCHANGED <<osvars, last_hwnd, hwnd, rect, rect2, hist>>

\* lines 158-162: the cursor query, the two tests and the first center
GetCur ==
    /\ pc = "getcur"
    /\ cur' = get_cursor_pos
    /\ log' = Append(log, Ev("cur", get_cursor_pos))
    /\ IF Truthy(rect) /\ Truthy(get_cursor_pos)
          /\ ~point_in_rect(get_cursor_pos[1], get_cursor_pos[2], rect)
       THEN /\ cx' = rect_center(rect)[1]
            /\ cy' = rect_center(rect)[2]
            /\ pc' = "requery"
       ELSE /\ UNCHANGED <<cx, cy>>
            /\ pc' = "sleep"
    /\ UNCHANGED <<osvars, last_hwnd, hwnd, rect, rect2, hist>>

\* Mutant: the center of the first rectangle is kept.
Requery_keeps_first_center ==
    /\ pc = "requery"
    /\ rect2' = IF Truthy(get_window_rect(hwnd)) THEN get_window_rect(hwnd) ELSE rect
    /\ log' = Append(log, Ev("rect2", get_window_rect(hwnd)))
    /\ pc' = "move"
    /\ UNCHANGED <<osvars, last_hwnd, hwnd, rect, cur, cx, cy, hist>>

\* Mutant: no fallback to rect; a failed re-query gives the move up.
Requery_no_fallback ==
    /\ pc = "requery"
    /\ rect2' = get_window_rect(hwnd)
    /\ log' = Append(log, Ev("rect2", get_window_rect(hwnd)))
    /\ IF Truthy(get_window_rect(hwnd))
       THEN /\ cx' = rect_center(get_window_rect(hwnd))[1]
            /\ cy' = rect_center(get_window_rect(hwnd))[2]
            /\ pc' = "move"
       ELSE /\ UNCHANGED <<cx, cy>>
            /\ pc' = "sleep"
    /\ UNCHANGED <<osvars, last_hwnd, hwnd, rect, cur, hist>>

\* lines 164-165: rect2 = get_window_rect(hwnd) or rect
Requery ==
    /\ pc = "requery"
    /\ LET r2 == IF Truthy(get_window_rect(hwnd)) THEN get_window_rect(hwnd) ELSE rect
       IN  /\ rect2' = r2
           /\ cx' = rect_center(r2)[1]
           /\ cy' = rect_center(r2)[2]
    /\ log' = Append(log, Ev("rect2", get_window_rect(hwnd)))
    /\ pc' = "move"
    /\ UNCHANGED <<osvars, last_hwnd, hwnd, rect, cur, hist>>

\* lines 137-138 and 166: SetCursorPos may fail; its result is not read
move_cursor(x, y) ==
    /\ \/ cursor' = <<x, y>>
       \/ cursor' = cursor
    /\ UNCHANGED <<fg, win, has_getwindowlong>>

\* Mutant: a SetCursorPos that left the cursor elsewhere is called again.
Move_retries ==
    /\ pc = "move"
    /\ move_cursor(cx, cy)
    /\ log' = Append(log, Ev("set", <<cx, cy>>))
    /\ pc' = IF cursor' = <<cx, cy>> THEN "sleep" ELSE "move"
    /\ UNCHANGED <<last_hwnd, hwnd, locals, hist>>

Move ==
    /\ pc = "move"
    /\ move_cursor(cx, cy)
    /\ log' = Append(log, Ev("set", <<cx, cy>>))
    /\ pc' = "sleep"
    /\ UNCHANGED <<last_hwnd, hwnd, locals, hist>>

\* line 168: time.sleep(poll_interval).  The locals of the tick are dead from
\* here on (each is assigned before it is read again), so they and the tick's
\* log are cleared.
SleepStep ==
    /\ pc = "sleep"
    /\ pc' = "poll"
    /\ rect' = None /\ cur' = None /\ rect2' = None /\ cx' = 0 /\ cy' = 0
    /\ log' = <<>>
    /\ UNCHANGED <<osvars, last_hwnd, hwnd>>

\* What the history variables record of the end of a tick.
SleepHistory ==
    /\ lastOutcome' = IF Len(log) > 1 THEN Outcome ELSE lastOutcome
    /\ UNCHANGED <<lastNonNull, gap, regained, polled>>

Sleep == SleepStep /\ SleepHistory

\* Mutant: the interrupt is honoured only at the poll sleep.
Interrupt_deferred ==
    /\ pc = "sleep"
    /\ pc' = "done"
    /\ UNCHANGED <<osvars, last_hwnd, hwnd, locals, log, hist>>

\* lines 147, 169-170: KeyboardInterrupt, at any point of the loop
Interrupt ==
    /\ pc # "done"
    /\ pc' = "done"
    /\ UNCHANGED <<osvars, last_hwnd, hwnd, locals, log, hist>>

\* -------------------------------------------------------------- the desktop
Running == pc # "done"

EnvFocus ==
    /\ Running
    /\ fg' \in (Handles \cup {NULL}) \ {fg}
    /\ UNCHANGED <<win, cursor, has_getwindowlong, pc, last_hwnd, hwnd, locals, log, hist>>

EnvShow ==
    /\ Running
    /\ win' = [win EXCEPT !.visible = ~win.visible]
    /\ UNCHANGED <<fg, cursor, has_getwindowlong, pc, last_hwnd, hwnd, locals, log, hist>>

EnvIconic ==
    /\ Running
    /\ win' = [win EXCEPT !.iconic = ~win.iconic]
    /\ UNCHANGED <<fg, cursor, has_getwindowlong, pc, last_hwnd, hwnd, locals, log, hist>>

EnvStyle ==
    /\ Running
    /\ win' = [win EXCEPT !.toolwindow = ~win.toolwindow]
    /\ UNCHANGED <<fg, cursor, has_getwindowlong, pc, last_hwnd, hwnd, locals, log, hist>>

EnvRect ==
    /\ Running
    /\ \E r \in (Rects \cup {None}) \ {win.rect} : win' = [win EXCEPT !.rect = r]
    /\ UNCHANGED <<fg, cursor, has_getwindowlong, pc, last_hwnd, hwnd, locals, log, hist>>

EnvCursor ==
    /\ Running
    /\ cursor' \in (Points \cup {None}) \ {cursor}
    /\ UNCHANGED <<fg, win, has_getwindowlong, pc, last_hwnd, hwnd, locals, log, hist>>

Loop == Poll \/ Filter \/ Settle \/ GetRect \/ GetCur \/ Requery \/ Move \/ Sleep
Env == EnvFocus \/ EnvShow \/ EnvIconic \/ EnvStyle \/ EnvRect \/ EnvCursor

Next == Loop \/ Env \/ Interrupt

Spec == Init /\ [][Next]_vars

\* The loop without the interrupt: the interpreter keeps running the single
\* thread, every sleep returns and every user32 call returns.  The history
\* variables other than the tick log are not kept here.
PollQuiet == PollStep /\ UNCHANGED hist
SleepQuiet == SleepStep /\ UNCHANGED hist
LoopLive ==
    PollQuiet \/ Filter \/ Settle \/ GetRect \/ GetCur \/ Requery \/ Move \/ SleepQuiet
NextLive == LoopLive \/ Env
LiveSpec == Init /\ [][NextLive]_vars /\ WF_vars(LoopLive)

\* hwnd_is_candidate on its own, over every handle and every answer of user32.
FilterInit ==
    /\ hwnd \in Handles \cup {NULL}
    /\ win \in WinStates
    /\ has_getwindowlong \in BOOLEAN
    /\ fg = NULL /\ cursor = None
    /\ pc = "call"
    /\ last_hwnd = NULL
    /\ rect = None /\ cur = None /\ rect2 = None /\ cx = 0 /\ cy = 0
    /\ log = <<>>
    /\ lastNonNull = NULL /\ gap = FALSE /\ regained = FALSE
    /\ lastOutcome = "none" /\ polled = {}

FilterCall ==
    /\ pc = "call"
    /\ log' = <<Ev("filter", hwnd_is_candidate(hwnd))>>
    /\ pc' = "ret"
    /\ UNCHANGED <<osvars, last_hwnd, hwnd, locals, hist>>

FilterSpec == FilterInit /\ [][FilterCall]_vars

\* point_in_rect and rect_center on their own, over every rectangle and point
\* with small coordinates of either sign (a rectangle need not be proper), and
\* over the two rectangles of width ten and eleven.
GeomInts == (0 - GeomCoord)..GeomCoord
GeomRects ==
    { <<l, t, r, b>> : l \in GeomInts, t \in GeomInts, r \in GeomInts, b \in GeomInts }
        \cup { <<0, 0, 10, 10>>, <<0, 0, 11, 11>> }
GeomPoints == { <<x, y>> : x \in GeomInts, y \in GeomInts }

GeomInit ==
    /\ rect \in GeomRects
    /\ cur \in GeomPoints
    /\ fg = NULL /\ cursor = None /\ has_getwindowlong = TRUE
    /\ win = [visible |-> TRUE, iconic |-> FALSE, toolwindow |-> FALSE, rect |-> None]
    /\ pc = "geom"
    /\ last_hwnd = NULL /\ hwnd = NULL
    /\ rect2 = None /\ cx = 0 /\ cy = 0
    /\ log = <<>>
    /\ lastNonNull = NULL /\ gap = FALSE /\ regained = FALSE
    /\ lastOutcome = "none" /\ polled = {}

\* x, y = cur; point_in_rect(x, y, rect); cx, cy = rect_center(rect);
\* point_in_rect(cx, cy, rect)
GeomCall ==
    /\ pc = "geom"
    /\ cx' = rect_center(rect)[1]
    /\ cy' = rect_center(rect)[2]
    /\ log' = << Ev("inside", point_in_rect(cur[1], cur[2], rect)),
                 Ev("center_inside",
                    point_in_rect(rect_center(rect)[1], rect_center(rect)[2], rect)) >>
    /\ pc' = "geomret"
    /\ UNCHANGED <<osvars, last_hwnd, hwnd, rect, cur, rect2, hist>>

GeomSpec == GeomInit /\ [][GeomCall]_vars

\* ================================================================== claims
\* The statements below are written against the tick log and the history
\* variables, with containment, center and validity spelled out again here
\* so that they do not rest on the operators they are about.
Inside(p, r) == r[1] <= p[1] /\ p[1] <= r[3] /\ r[2] <= p[2] /\ p[2] <= r[4]
Center(r) == <<r[1] + ((r[3] - r[1]) \div 2), r[2] + ((r[4] - r[2]) \div 2)>>
Valid(r) == r[3] > r[1] /\ r[4] > r[2]

\* The tick reached the containment check with both queries answered.
Checked == Has("rect") /\ Has("cur") /\ Val("rect") # None /\ Val("cur") # None
CheckedOutside == Checked /\ ~Inside(Val("cur"), Val("rect"))
CheckedInside == Checked /\ Inside(Val("cur"), Val("rect"))
\* The rectangle whose center the tick's move uses.
MoveRect == IF Val("rect2") # None THEN Val("rect2") ELSE Val("rect")
SetFor(h, p) == \E i \in DOMAIN log : log[i].op = "set" /\ log[i].h = h /\ log[i].val = p

\* ---- C1
\* C1 as written: whenever a poll reports a new non-null foreground handle
\* and the cursor is not over that window, SetCursorPos is eventually called
\* for it with the center of a rectangle of the window.
C1_FollowsEveryFocusChange ==
    \A h \in Handles :
        (pc = "filter" /\ hwnd = h /\ Truthy(cursor) /\ Truthy(win.rect)
            /\ ~Inside(cursor, win.rect))
        ~> (\E r \in Rects : SetFor(h, Center(r)))

\* C1 amended: once a transition has passed the filter and both queries after
\* the settle delay succeeded with the cursor outside the rectangle,
\* SetCursorPos is eventually called for that handle with the center of the
\* re-queried rectangle (of the first one when the re-query fails): the tick
\* reaches its poll sleep (the log is that of one tick, cleared when the
\* sleep ends), and has made that call when it does.
C1_FollowsQualifiedFocusChange ==
    /\ [](pc = "sleep" /\ CheckedOutside
            => (Has("rect2") /\ SetFor(hwnd, Center(MoveRect))))
    /\ CheckedOutside ~> (pc = "sleep")

C1_Witness ==
    pc = "sleep" /\ CheckedOutside /\ Has("rect2") /\ SetFor(hwnd, Center(MoveRect))

\* ---- C2
\* C2: when polls return A, then null one or more times, then A again, the
\* stored handle stays A throughout and neither the null ticks nor the tick
\* of the later A fire a transition: their only call is the poll.
C2_Debounce ==
    (gap \/ regained) =>
        /\ last_hwnd = lastNonNull
        /\ Len(log) <= 1
        /\ pc \in {"poll", "sleep", "done"}

C2_Witness == regained /\ pc = "sleep" /\ Len(log) = 1 /\ hwnd = lastNonNull

\* ---- C3
\* C3: in a tick that passed the filter, got rect and a cursor position outside
\* rect, and got rect2 from the re-query, SetCursorPos is called exactly once,
\* with the center of rect2.
C3_MoveToCenterOfRequery ==
    (pc = "sleep" /\ Has("filter") /\ Val("filter") /\ CheckedOutside
        /\ Has("rect2") /\ Val("rect2") # None)
    => (Count("set") = 1 /\ Val("set") = Center(Val("rect2")))

C3_Witness ==
    /\ pc = "sleep" /\ CheckedOutside /\ Has("rect2") /\ Val("rect2") # None
    /\ Center(Val("rect2")) # Center(Val("rect"))
    /\ Count("set") = 1 /\ Val("set") = Center(Val("rect2"))

\* ---- C4
\* C4: when the cursor position obtained after the settle delay lies inside
\* the rectangle obtained after it, edges included, the tick makes no
\* re-query and no SetCursorPos call.
C4_NoOpWhenInside ==
    CheckedInside => (~Has("rect2") /\ ~Has("set") /\ pc \in {"sleep", "done"})

\* the cursor on the right and bottom edge of the rectangle
C4_Witness ==
    /\ pc = "sleep" /\ CheckedInside
    /\ Val("cur")[1] = Val("rect")[3] /\ Val("cur")[2] = Val("rect")[4]
    /\ Valid(Val("rect"))

\* ---- C5
\* C5: SetCursorPos is never called for a window that is minimized at the
\* moment of the call.
C5_NoMoveWhenMinimized ==
    [][(pc = "move" /\ pc' = "sleep") => ~win.iconic]_vars

\* ---- C6
\* C6: when the rectangle query or the cursor query after the settle delay
\* fails, the tick makes no re-query and no SetCursorPos call and goes on to
\* the poll sleep with the stored handle equal to the polled one; while later
\* polls return that handle or null, no transition fires for it again.
C6_QueryFailureAbandons ==
    /\ ((Has("rect") /\ Val("rect") = None) \/ (Has("cur") /\ Val("cur") = None))
        => /\ ~Has("rect2") /\ ~Has("set")
           /\ pc \in {"getcur", "sleep", "done"}
           /\ last_hwnd = Val("poll")
    /\ lastOutcome = "abandoned"
        => /\ Len(log) <= 1
           /\ last_hwnd = lastNonNull
           /\ pc \in {"poll", "sleep", "done"}

\* a later tick polled the abandoned handle again while both queries would
\* now succeed with the cursor outside the window
C6_Witness ==
    /\ lastOutcome = "abandoned" /\ pc = "sleep" /\ Len(log) = 1
    /\ Val("poll") = lastNonNull
    /\ Truthy(cursor) /\ Truthy(win.rect) /\ ~Inside(cursor, win.rect)

\* ---- C7
\* C7: when the first rectangle query succeeded with rect, the cursor is
\* outside rect and the re-query fails, SetCursorPos is called exactly once,
\* with the center of rect.
C7_FallbackToFirstRect ==
    (pc = "sleep" /\ CheckedOutside /\ Has("rect2") /\ Val("rect2") = None)
    => (Count("set") = 1 /\ Val("set") = Center(Val("rect")))

C7_Witness ==
    /\ pc = "sleep" /\ CheckedOutside /\ Has("rect2") /\ Val("rect2") = None
    /\ Count("set") = 1 /\ Val("set") = Center(Val("rect"))

\* ---- C8
\* C8: every rectangle used for the containment check after the settle delay,
\* and every rectangle whose center is passed to SetCursorPos, has
\* right > left and bottom > top.
C8_OnlyValidRects ==
    /\ Checked => Valid(Val("rect"))
    /\ Has("set") => Valid(MoveRect)

\* ---- C9
\* C9: while the loop is blocked in the settle delay or the poll sleep nothing
\* is polled and the stored handle does not change; a handle that no poll has
\* returned is never the stored handle and has no call in the tick log; and a
\* poll fires a transition exactly when the handle it returns is non-null and
\* differs from the stored one, and then for that handle.
C9_DroppedDuringDelay ==
    [][ /\ (pc \in {"settle", "sleep"} /\ pc' = pc)
            => (last_hwnd' = last_hwnd /\ hwnd' = hwnd /\ log' = log /\ polled' = polled)
        /\ \A h \in Handles \ polled' :
            last_hwnd' # h /\ (\A i \in DOMAIN log' : log'[i].h # h)
        /\ (pc = "poll" /\ pc' \in {"filter", "sleep"})
            => /\ pc' = "filter" <=> (fg # NULL /\ fg # last_hwnd)
               /\ pc' = "filter" => (last_hwnd' = fg /\ hwnd' = fg)
               /\ pc' = "sleep" => last_hwnd' = last_hwnd
      ]_vars

\* a handle no poll has returned became foreground while the tick was under
\* way, and the tick moved the cursor for the handle that was polled
C9_Witness ==
    /\ pc = "sleep" /\ Has("set")
    /\ fg \in Handles \ polled
    /\ Val("poll") = last_hwnd

\* ---- C10
\* C10: hwnd_is_candidate is true exactly when the handle is non-null, the
\* window is visible and not minimized, the tool-window bit is clear or the
\* extended style cannot be queried, and the rectangle is retrieved with
\* positive width and height.
C10_CandidatePredicate ==
    pc = "ret" =>
        (Val("filter") <=>
            /\ hwnd # NULL
            /\ win.visible
            /\ ~win.iconic
            /\ (has_getwindowlong => ~win.toolwindow)
            /\ win.rect # None
            /\ win.rect[3] - win.rect[1] > 0
            /\ win.rect[4] - win.rect[2] > 0)

\* a tool window accepted because the extended style cannot be queried
C10_Witness ==
    pc = "ret" /\ ~has_getwindowlong /\ win.toolwindow /\ Val("filter")

\* C11: point_in_rect answers true exactly for the points with
\* left <= x <= right and top <= y <= bottom, so a point on an edge of the
\* rectangle is inside it.
C11_InclusiveContainment ==
    pc = "geomret" =>
        (Val("inside") <=> /\ rect[1] <= cur[1] /\ cur[1] <= rect[3]
                           /\ rect[2] <= cur[2] /\ cur[2] <= rect[4])

\* A point on the right and bottom edges of a proper rectangle, found inside.
C11_Witness ==
    /\ pc = "geomret" /\ Valid(rect)
    /\ cur[1] = rect[3] /\ cur[2] = rect[4]
    /\ Val("inside")

\* C12: rect_center is left + floor((right - left) / 2) and
\* top + floor((bottom - top) / 2), for coordinates of either sign: twice the
\* offset of the center is the extent, or one less when the extent is odd.
\* (0,0,10,10) and (0,0,11,11) both have center (5,5).
C12_FloorCenter ==
    pc = "geomret" =>
        /\ 2 * (cx - rect[1]) <= rect[3] - rect[1]
        /\ rect[3] - rect[1] < 2 * (cx - rect[1]) + 2
        /\ 2 * (cy - rect[2]) <= rect[4] - rect[2]
        /\ rect[4] - rect[2] < 2 * (cy - rect[2]) + 2
        /\ (rect \in { <<0, 0, 10, 10>>, <<0, 0, 11, 11>> } => <<cx, cy>> = <<5, 5>>)

\* An odd extent at negative coordinates: (-2,-2,1,1) has center (-1,-1).
C12_Witness ==
    /\ pc = "geomret"
    /\ rect = <<0 - 2, 0 - 2, 1, 1>>
    /\ <<cx, cy>> = <<0 - 1, 0 - 1>>

\* C20: the center of a rectangle with right > left and bottom > top is
\* inside that rectangle, so the containment check repeated after a move to
\* the center finds the cursor inside.
C20_CenterIsInside ==
    (pc = "geomret" /\ rect[3] > rect[1] /\ rect[4] > rect[2]) =>
        /\ Val("center_inside")
        /\ Inside(<<cx, cy>>, rect)

\* A proper rectangle of width one away from the origin: its center is its
\* left top corner.
C20_Witness ==
    /\ pc = "geomret"
    /\ rect = <<1, 1, 2, 2>>
    /\ <<cx, cy>> = <<1, 1>>
    /\ Val("center_inside")

\* C13: while no interrupt arrives the loop keeps reaching its poll sleep and
\* keeps polling again, whichever queries fail on the way.  The step that
\* calls SetCursorPos ends at the poll sleep whether or not the cursor went
\* to the target, a tick calls it at most once, and a later poll that
\* returns the stored handle goes to the poll sleep with nothing else done.
C13_LoopKeepsPolling ==
    /\ []<>(pc = "sleep")
    /\ []<>(pc = "poll")
    /\ [](Count("set") <= 1 /\ (Has("set") => (pc = "sleep" /\ last_hwnd = hwnd)))
    /\ [][ /\ (pc = "move" /\ pc' # "move") =>
                (pc' = "sleep" /\ Count("set")' = 1 /\ last_hwnd' = hwnd)
           /\ (pc = "poll" /\ pc' # "poll" /\ fg = last_hwnd) =>
                (pc' = "sleep" /\ Len(log') = 1) ]_vars

\* A tick that called SetCursorPos and is at its poll sleep with the cursor
\* still where the query found it, away from the target, as after a call
\* that failed.
C13_Witness ==
    /\ pc = "sleep" /\ Has("set")
    /\ cursor # None /\ cursor = Val("cur") /\ cursor # Val("set")

\* C14: the interrupt can end the loop at every point of a tick; the step
\* that ends it makes no call and changes nothing but the position in the
\* program, and once the loop has ended no step follows: no poll, no query,
\* no SetCursorPos.  So a tick interrupted in its settle delay moves nothing.
C14_InterruptEndsLoop ==
    /\ [](pc # "done" => ENABLED Interrupt)
    /\ [][ /\ pc # "done"
           /\ pc' = "done" =>
                /\ log' = log /\ cursor' = cursor /\ last_hwnd' = last_hwnd
                /\ (pc = "settle" => ~Has("settle")' /\ ~Has("set")') ]_vars

\* The loop ended in the settle delay of a tick that would have moved the
\* cursor: the filter passed, and the cursor is outside the window.
C14_Witness ==
    /\ pc = "done"
    /\ Len(log) = 2 /\ Has("filter") /\ Val("filter")
    /\ cursor # None /\ win.rect # None /\ ~Inside(cursor, win.rect)

\* The calls of a tick in the order the specification gives them.
Order == <<"poll", "filter", "settle", "rect", "cur", "rect2", "set">>

\* C15: the calls of a tick are an initial part of poll, filter, settle,
\* rectangle query, cursor query, re-query, SetCursorPos, in that order.  The
\* settle delay is taken exactly when a transition fired and the filter
\* passed; the re-query follows a containment check that found the cursor
\* outside; SetCursorPos follows a passed filter, the settle delay and two
\* successful queries; and the tick's log is cleared by the poll sleep alone,
\* so a new poll starts only after the poll sleep.
C15_TickOrder ==
    /\ Len(log) <= Len(Order)
    /\ \A i \in DOMAIN log : log[i].op = Order[i]
    /\ (pc = "poll") => (log = <<>>)
    /\ (pc \in {"filter", "settle", "getrect", "getcur", "requery", "move", "sleep"})
            => Has("poll")
    /\ Has("settle") <=> (Has("filter") /\ Val("filter") /\ pc \notin {"settle", "done"})
                            \/ (Has("filter") /\ Val("filter") /\ pc = "done" /\ Len(log) > 2)
    /\ Has("rect2") => CheckedOutside
    /\ Has("set") =>
            /\ Val("filter") /\ Has("settle") /\ CheckedOutside /\ Has("rect2")
            /\ pc \in {"sleep", "done"}
    /\ (Len(log) > 0 /\ ~Has("set") /\ pc = "sleep") =>
            \/ Val("poll") = NULL
            \/ Len(log) = 1
            \/ (Len(log) = 2 /\ ~Val("filter"))
            \/ (Len(log) = 5 /\ ~CheckedOutside)

\* A tick at its poll sleep after all seven calls.
C15_Witness == pc = "sleep" /\ Len(log) = 7 /\ Has("set")

\* C16: whenever SetCursorPos is called, the window the target was computed
\* for is the foreground window at that moment.
C16_TargetIsForeground ==
    [][(pc = "move" /\ pc' = "sleep") => fg = hwnd]_vars

\* C17: last_hwnd is null as long as no poll has returned a handle, and from
\* then on it is the most recent non-null handle a poll returned, in every
\* state: so it changes only where that handle changes, at a poll returning
\* a non-null handle that differs, and it never goes back to null.  A poll
\* that returns a handle other than the most recent one, the first handle
\* after startup included, fires a transition.
C17_FocusState ==
    /\ last_hwnd = lastNonNull
    /\ (polled = {}) <=> (last_hwnd = NULL)
    /\ last_hwnd # NULL => last_hwnd \in polled
    /\ (pc = "sleep" /\ Val("poll") # NULL /\ lastOutcome = "none") => Has("filter")
    /\ (pc \notin {"poll", "done"} /\ Val("poll") # NULL) => last_hwnd = Val("poll")

\* The first handle was polled, a transition fired for it, and the next poll
\* returned null: the stored handle stays.
C17_Witness ==
    /\ pc = "sleep" /\ gap
    /\ Val("poll") = NULL
    /\ last_hwnd # NULL /\ polled = {last_hwnd}

\* C18: a tick whose filter rejects the handle has stored that handle and
\* does nothing more than go to its poll sleep.  As long as the latest
\* transition is that rejected one, that is until a poll returns a different
\* non-null handle, every tick consists of its poll alone: no filter, no
\* query, no SetCursorPos, whatever the window has become by then.
C18_RejectedIsConsumed ==
    /\ (Has("filter") /\ ~Val("filter")) =>
            /\ last_hwnd = Val("poll")
            /\ Len(log) = 2
            /\ pc \in {"sleep", "done"}
    /\ lastOutcome = "rejected" =>
            /\ last_hwnd = lastNonNull
            /\ \A i \in DOMAIN log : log[i].op = "poll" /\ log[i].val \in {NULL, last_hwnd}
            /\ pc \in {"poll", "sleep", "done"}

\* After a rejected transition a poll returns the same handle while the
\* window is visible, restored, no tool window and proper, with the cursor
\* outside it: the tick goes to its poll sleep with the poll alone.
C18_Witness ==
    /\ lastOutcome = "rejected" /\ pc = "sleep"
    /\ Val("poll") = last_hwnd /\ fg = last_hwnd
    /\ win.visible /\ ~win.iconic /\ ~win.toolwindow
    /\ win.rect # None /\ Valid(win.rect)
    /\ cursor # None /\ ~Inside(cursor, win.rect)

\* The tick's poll returned a non-null handle other than the one polled last
\* before it: the outcome of such a tick is open until its poll sleep ends.
FiredTick == Has("poll") /\ Val("poll") # NULL /\ lastOutcome = "none"

\* C19: a tick has one poll and so at most one transition.  A tick without a
\* transition makes no call but its poll; a tick with one makes at most one
\* filter call, one cursor query, two rectangle queries after the settle
\* delay and one SetCursorPos.  Every SetCursorPos is thus the only one of a
\* tick that fired a transition, so there are never more of them than
\* transitions.
C19_BoundedEffects ==
    /\ Count("poll") <= 1
    /\ (Has("poll") /\ ~FiredTick) => Len(log) = 1
    /\ Count("filter") <= 1
    /\ Count("settle") <= 1
    /\ Count("cur") <= 1
    /\ Count("rect") + Count("rect2") <= 2
    /\ Count("set") <= 1
    /\ Has("set") => FiredTick

\* A tick at its poll sleep with the poll alone, for a handle whose
\* transition an earlier tick answered with a move.
C19_Witness ==
    /\ pc = "sleep" /\ Len(log) = 1
    /\ Val("poll") # NULL /\ lastOutcome = "moved"
====
